---- MODULE Spec2Model ----
(***************************************************************************)
(* A model of the single-entity (User) CRUD service: the HTTP handler, the *)
(* two use-case variants (the pass-through one of                          *)
(* internal/usecase/user_usecase.go and the richer one of readme.md), and  *)
(* the two repository implementations (the GORM one of readme.md and the   *)
(* raw-SQL one of internal/repository/sqlite_user_repository.go) over one  *)
(* `users` table.                                                          *)
(***************************************************************************)
EXTENDS Integers, Sequences, FiniteSets, TLC

\* ------------------------------------------------------------------ bounds
\* The largest row id the table may hold (ids are 1..MaxID).
MaxID == 1
\* The latest instant time.Now() may read (the instants are 1..MaxTime).
MaxTime == 1

\* ------------------------------------------------------- domain/model/error.go
ErrInternalServerError == "internal server error"
ErrNotFound == "your requested item is not found"
ErrConflict == "your item already exists"
ErrBadRequest == "bad request"
ErrInvalidCredentials == "invalid credentials"
\* a nil error
NoErr == "nil"
\* panic("unimplemented"): not an error value, the call does not return
Panicked == "panic: unimplemented"
\* some error that is none of the five sentinels (errors.New elsewhere, or a
\* sentinel wrapped with fmt.Errorf: `switch err` compares by identity)
OtherErr == "some other error"

Sentinels ==
  {ErrInternalServerError, ErrNotFound, ErrConflict, ErrBadRequest, ErrInvalidCredentials}

\* ------------------------------------------------------- domain/model: User
\* The zero time.Time; time.Now() is always later.
ZeroTime == 0

User(id, name, email, password, createdAt, updatedAt) ==
  [ID |-> id, Name |-> name, Email |-> email, Password |-> password,
   CreatedAt |-> createdAt, UpdatedAt |-> updatedAt]

\* &model.User{} / var user model.User
ZeroUser == User(0, "", "", "", ZeroTime, ZeroTime)

\* A *model.User: nil or a pointer to a value.
NilPtr == [isNil |-> TRUE, v |-> ZeroUser]
Ptr(u) == [isNil |-> FALSE, v |-> u]

\* encoding/json of a User: the Password field is tagged json:"-".
ToJSON(u) ==
  [id |-> u.ID, name |-> u.Name, email |-> u.Email,
   created_at |-> u.CreatedAt, updated_at |-> u.UpdatedAt]

\* ------------------------------------------------------------ the users table
\* The table is a function from the ids of its rows to the rows.
EmptyTable == [i \in {} |-> ZeroUser]

Ids(table) == DOMAIN table

\* the rows with this email (the column is unique, so at most one)
RowsWithEmail(table, email) == {i \in Ids(table) : table[i].Email = email}

\* UNIQUE(email): would writing `email` into row `id` break it?
EmailTaken(table, email, id) == \E i \in Ids(table) : i # id /\ table[i].Email = email

Put(table, id, row) == [i \in Ids(table) \cup {id} |-> IF i = id THEN row ELSE table[i]]

Remove(table, id) == [i \in Ids(table) \ {id} |-> table[i]]

Max(a, b) == IF a >= b THEN a ELSE b

\* What a repository call gives back: the returned pointer, the error, the
\* table and the AUTOINCREMENT sequence after the call, and (Create/Update)
\* the caller's *model.User as the ORM left it.
Ret(ptr, err, table, seq, arg) ==
  [user |-> ptr, list |-> <<>>, err |-> err, table |-> table, seq |-> seq, arg |-> arg]

\* The rows with an id >= i, in id order (SELECT * FROM users).
RECURSIVE RowsFrom(_, _)
RowsFrom(table, i) ==
  IF Ids(table) = {} \/ \A j \in Ids(table) : j < i THEN <<>>
  ELSE (IF i \in Ids(table) THEN <<table[i]>> ELSE <<>>) \o RowsFrom(table, i + 1)

\* rows[from..] and rows[..n] of a sequence
Drop(rows, n) == SubSeq(rows, n + 1, Len(rows))
Take(rows, n) == SubSeq(rows, 1, IF n < Len(rows) THEN n ELSE Len(rows))

\* ------------------------------------------- repository: GORM (readme.md)
\* `fail` is the database call failing for a reason other than "no rows"
\* (connection lost, context cancelled, ...): result.Error is then some
\* driver error.

\* GormGetByID with the email column left out of the scan.
GormGetByIDWithoutEmail(table, seq, id, fail) ==
  IF fail THEN Ret(NilPtr, ErrInternalServerError, table, seq, ZeroUser)
  ELSE IF id \notin Ids(table) THEN Ret(NilPtr, ErrNotFound, table, seq, ZeroUser)
  ELSE Ret(Ptr([table[id] EXCEPT !.Email = ""]), NoErr, table, seq, ZeroUser)

\* db.First(&user, id)
GormGetByID(table, seq, id, fail) ==
  IF fail THEN Ret(NilPtr, ErrInternalServerError, table, seq, ZeroUser)
  ELSE IF id \notin Ids(table) THEN Ret(NilPtr, ErrNotFound, table, seq, ZeroUser)
  ELSE Ret(Ptr(table[id]), NoErr, table, seq, ZeroUser)

\* db.Where("email = ?", email).First(&user)
GormGetByEmail(table, seq, email, fail) ==
  IF fail THEN Ret(NilPtr, ErrInternalServerError, table, seq, ZeroUser)
  ELSE IF RowsWithEmail(table, email) = {} THEN Ret(NilPtr, ErrNotFound, table, seq, ZeroUser)
  ELSE Ret(Ptr(table[CHOOSE i \in RowsWithEmail(table, email) : TRUE]), NoErr, table, seq, ZeroUser)

\* The row db.Create(user) inserts: a zero primary key takes the next
\* AUTOINCREMENT value, zero autoCreateTime/autoUpdateTime fields take the
\* current time.
GormInsertRow(seq, user, now) ==
  [user EXCEPT !.ID = IF user.ID = 0 THEN seq + 1 ELSE user.ID,
               !.CreatedAt = IF user.CreatedAt = ZeroTime THEN now ELSE user.CreatedAt,
               !.UpdatedAt = IF user.UpdatedAt = ZeroTime THEN now ELSE user.UpdatedAt]

\* The INSERT fails on PRIMARY KEY(id) or UNIQUE(email).
InsertRejected(table, row) == row.ID \in Ids(table) \/ EmailTaken(table, row.Email, row.ID)

\* db.Create(user): any result.Error is ErrInternalServerError; on success the
\* caller's struct holds the id and the time stamps of the row.
GormCreate(table, seq, user, now, fail) ==
  LET row == GormInsertRow(seq, user, now) IN
  IF fail \/ InsertRejected(table, row)
  THEN Ret(NilPtr, ErrInternalServerError, table, seq, user)
  ELSE Ret(NilPtr, NoErr, Put(table, row.ID, row), Max(seq, row.ID), row)

\* db.Save(user): with a zero primary key Save is Create; otherwise it is an
\* UPDATE of all columns (autoUpdateTime sets updated_at), and when that
\* UPDATE matches no row, an INSERT ... ON CONFLICT (id) DO UPDATE.
\* rows is result.RowsAffected.
GormSave(table, seq, user, now) ==
  IF user.ID = 0 \/ user.ID \notin Ids(table)
  THEN LET row == GormInsertRow(seq, user, now) IN
       IF InsertRejected(table, row)
       THEN [failed |-> TRUE, rows |-> 0, table |-> table, seq |-> seq, arg |-> user]
       ELSE [failed |-> FALSE, rows |-> 1, table |-> Put(table, row.ID, row),
             seq |-> Max(seq, row.ID), arg |-> row]
  ELSE LET row == [user EXCEPT !.UpdatedAt = now] IN
       IF EmailTaken(table, row.Email, row.ID)
       THEN [failed |-> TRUE, rows |-> 0, table |-> table, seq |-> seq, arg |-> user]
       ELSE [failed |-> FALSE, rows |-> 1, table |-> Put(table, row.ID, row),
             seq |-> seq, arg |-> row]

\* GormUpdate with the failure of db.Save reported after its write.
GormUpdateSavingOnError(table, seq, user, now, fail) ==
  LET result == GormSave(table, seq, user, now) IN
  IF fail \/ result.failed
  THEN Ret(NilPtr, ErrInternalServerError, result.table, result.seq, user)
  ELSE IF result.rows = 0 THEN Ret(NilPtr, ErrNotFound, result.table, result.seq, result.arg)
  ELSE Ret(NilPtr, NoErr, result.table, result.seq, result.arg)

GormUpdate(table, seq, user, now, fail) ==
  LET result == GormSave(table, seq, user, now) IN
  IF fail THEN Ret(NilPtr, ErrInternalServerError, table, seq, user)
  ELSE IF result.failed THEN Ret(NilPtr, ErrInternalServerError, table, seq, user)
  ELSE IF result.rows = 0 THEN Ret(NilPtr, ErrNotFound, result.table, result.seq, result.arg)
  ELSE Ret(NilPtr, NoErr, result.table, result.seq, result.arg)

\* db.Delete(&model.User{}, id)
GormDelete(table, seq, id, fail) ==
  LET rows == IF id \in Ids(table) THEN 1 ELSE 0 IN
  IF fail THEN Ret(NilPtr, ErrInternalServerError, table, seq, ZeroUser)
  ELSE IF rows = 0 THEN Ret(NilPtr, ErrNotFound, table, seq, ZeroUser)
  ELSE Ret(NilPtr, NoErr, Remove(table, id), seq, ZeroUser)

\* ------------------------------ repository: raw SQL (sqlite_user_repository.go)
\* row.Scan is given five destinations for the six selected columns, so when
\* the query finds a row Scan fails ("expected 6 destination arguments in
\* Scan, not 5"); sql.ErrNoRows is reported before the destinations are
\* looked at.
SqliteScanByID(table, id, fail) ==
  IF fail THEN "driver error"
  ELSE IF id \notin Ids(table) THEN "sql.ErrNoRows"
  ELSE "scan error"

SqliteGetByID(table, seq, id, fail) ==
  LET err == SqliteScanByID(table, id, fail) IN
  IF err # "nil"
  THEN IF err = "sql.ErrNoRows"
       THEN Ret(NilPtr, ErrNotFound, table, seq, ZeroUser)
       ELSE Ret(NilPtr, ErrInternalServerError, table, seq, ZeroUser)
  ELSE Ret(Ptr(table[id]), NoErr, table, seq, ZeroUser)

\* row.Scan with all six destinations; on an error nothing was scanned and
\* user is still &model.User{}.
SqliteScanByEmail(table, email, fail) ==
  IF fail THEN [err |-> "driver error", user |-> ZeroUser]
  ELSE IF RowsWithEmail(table, email) = {} THEN [err |-> "sql.ErrNoRows", user |-> ZeroUser]
  ELSE [err |-> "nil", user |-> table[CHOOSE i \in RowsWithEmail(table, email) : TRUE]]

\* An error that is not sql.ErrNoRows falls out of the `if err != nil` block
\* to `return user, nil`.
SqliteGetByEmail(table, seq, email, fail) ==
  LET scan == SqliteScanByEmail(table, email, fail) IN
  IF scan.err # "nil" /\ scan.err = "sql.ErrNoRows"
  THEN Ret(NilPtr, ErrNotFound, table, seq, ZeroUser)
  ELSE Ret(Ptr(scan.user), NoErr, table, seq, ZeroUser)

\* Create, Update, Delete, List: panic("unimplemented")
SqliteCreate(table, seq, user, now, fail) == Ret(NilPtr, Panicked, table, seq, user)
SqliteUpdate(table, seq, user, now, fail) == Ret(NilPtr, Panicked, table, seq, user)
SqliteDelete(table, seq, id, fail) == Ret(NilPtr, Panicked, table, seq, ZeroUser)

SqliteList(table, seq, limit, offset, fail) == Ret(NilPtr, Panicked, table, seq, ZeroUser)

\* db.Limit(limit).Offset(offset).Find(&users): the ORM writes LIMIT when
\* limit >= 0 and OFFSET when offset > 0.
GormFind(table, limit, offset) ==
  LET skipped == IF offset > 0 THEN Drop(RowsFrom(table, 1), offset) ELSE RowsFrom(table, 1) IN
  IF limit >= 0 THEN Take(skipped, limit) ELSE skipped

GormList(table, seq, limit, offset, fail) ==
  IF fail THEN Ret(NilPtr, ErrInternalServerError, table, seq, ZeroUser)
  ELSE [Ret(NilPtr, NoErr, table, seq, ZeroUser) EXCEPT !.list = GormFind(table, limit, offset)]

\* ------------------------------------------- repository.UserRepository
\* The interface; `repo` is the implementation the use case was built with.
Repos == {"gorm", "sqlite"}

RepoGetByID(repo, table, seq, id, fail) ==
  IF repo = "gorm" THEN GormGetByID(table, seq, id, fail) ELSE SqliteGetByID(table, seq, id, fail)

RepoGetByEmail(repo, table, seq, email, fail) ==
  IF repo = "gorm" THEN GormGetByEmail(table, seq, email, fail)
  ELSE SqliteGetByEmail(table, seq, email, fail)

RepoCreate(repo, table, seq, user, now, fail) ==
  IF repo = "gorm" THEN GormCreate(table, seq, user, now, fail)
  ELSE SqliteCreate(table, seq, user, now, fail)

RepoUpdate(repo, table, seq, user, now, fail) ==
  IF repo = "gorm" THEN GormUpdate(table, seq, user, now, fail)
  ELSE SqliteUpdate(table, seq, user, now, fail)

RepoDelete(repo, table, seq, id, fail) ==
  IF repo = "gorm" THEN GormDelete(table, seq, id, fail) ELSE SqliteDelete(table, seq, id, fail)

RepoList(repo, table, seq, limit, offset, fail) ==
  IF repo = "gorm" THEN GormList(table, seq, limit, offset, fail)
  ELSE SqliteList(table, seq, limit, offset, fail)

\* One repository call as the use case made it: the method, its arguments
\* and what it returned.
Call(m, id, email, user, limit, offset, ret) ==
  [m |-> m, id |-> id, email |-> email, user |-> user, limit |-> limit,
   offset |-> offset, err |-> ret.err, found |-> ~ret.user.isNil]

\* ---------------------------------------------------- usecase.UserUsecase
\* What a use-case call gives back: the repository's result and the
\* repository calls made, in order. failAt is the database call of the
\* request that fails (0: none).
Out(ret, calls) ==
  [user |-> ret.user, list |-> ret.list, err |-> ret.err, table |-> ret.table,
   seq |-> ret.seq, arg |-> ret.arg, calls |-> calls]

Usecases == {"simple", "rich"}

\* GetByID: both variants pass through.
UsecaseGetByID(repo, table, seq, id, failAt) ==
  LET r == RepoGetByID(repo, table, seq, id, failAt = 1) IN
  Out(r, <<Call("GetByID", id, "", ZeroUser, 0, 0, r)>>)

\* Create, internal/usecase/user_usecase.go
SimpleCreate(repo, table, seq, user, now, failAt) ==
  LET r == RepoCreate(repo, table, seq, user, now, failAt = 1) IN
  Out(r, <<Call("Create", 0, "", user, 0, 0, r)>>)

\* RichCreate without the `existingUser != nil` branch.
RichCreateWithoutConflict(repo, table, seq, user, now, failAt) ==
  LET lookup == RepoGetByEmail(repo, table, seq, user.Email, failAt = 1)
      c1 == Call("GetByEmail", 0, user.Email, ZeroUser, 0, 0, lookup)
      stamped == [user EXCEPT !.CreatedAt = now, !.UpdatedAt = now]
      r == RepoCreate(repo, table, seq, stamped, now, failAt = 2)
  IN
  IF lookup.err # NoErr /\ lookup.err # ErrNotFound
  THEN Out(Ret(NilPtr, lookup.err, table, seq, user), <<c1>>)
  ELSE Out(r, <<c1, Call("Create", 0, "", stamped, 0, 0, r)>>)

\* RichCreate without the `err != model.ErrNotFound` branch.
RichCreateIgnoringLookupError(repo, table, seq, user, now, failAt) ==
  LET lookup == RepoGetByEmail(repo, table, seq, user.Email, failAt = 1)
      c1 == Call("GetByEmail", 0, user.Email, ZeroUser, 0, 0, lookup)
      stamped == [user EXCEPT !.CreatedAt = now, !.UpdatedAt = now]
      r == RepoCreate(repo, table, seq, stamped, now, failAt = 2)
  IN
  IF lookup.err = NoErr /\ ~lookup.user.isNil
  THEN Out(Ret(NilPtr, ErrConflict, table, seq, user), <<c1>>)
  ELSE Out(r, <<c1, Call("Create", 0, "", stamped, 0, 0, r)>>)

\* Create, readme.md
RichCreate(repo, table, seq, user, now, failAt) ==
  LET lookup == RepoGetByEmail(repo, table, seq, user.Email, failAt = 1)
      c1 == Call("GetByEmail", 0, user.Email, ZeroUser, 0, 0, lookup)
      stamped == [user EXCEPT !.CreatedAt = now, !.UpdatedAt = now]
      r == RepoCreate(repo, table, seq, stamped, now, failAt = 2)
  IN
  IF lookup.err = NoErr /\ ~lookup.user.isNil
  THEN Out(Ret(NilPtr, ErrConflict, table, seq, user), <<c1>>)
  ELSE IF lookup.err # NoErr /\ lookup.err # ErrNotFound
  THEN Out(Ret(NilPtr, lookup.err, table, seq, user), <<c1>>)
  ELSE Out(r, <<c1, Call("Create", 0, "", stamped, 0, 0, r)>>)

UsecaseCreate(uc, repo, table, seq, user, now, failAt) ==
  IF uc = "rich" THEN RichCreate(repo, table, seq, user, now, failAt)
  ELSE SimpleCreate(repo, table, seq, user, now, failAt)

\* Update, internal/usecase/user_usecase.go
SimpleUpdate(repo, table, seq, user, now, failAt) ==
  LET r == RepoUpdate(repo, table, seq, user, now, failAt = 1) IN
  Out(r, <<Call("Update", 0, "", user, 0, 0, r)>>)

\* Update, readme.md
RichUpdate(repo, table, seq, user, now, failAt) ==
  LET check == RepoGetByID(repo, table, seq, user.ID, failAt = 1)
      c1 == Call("GetByID", user.ID, "", ZeroUser, 0, 0, check)
      stamped == [user EXCEPT !.UpdatedAt = now]
      r == RepoUpdate(repo, table, seq, stamped, now, failAt = 2)
  IN
  IF check.err # NoErr
  THEN Out(Ret(NilPtr, check.err, table, seq, user), <<c1>>)
  ELSE Out(r, <<c1, Call("Update", 0, "", stamped, 0, 0, r)>>)

UsecaseUpdate(uc, repo, table, seq, user, now, failAt) ==
  IF uc = "rich" THEN RichUpdate(repo, table, seq, user, now, failAt)
  ELSE SimpleUpdate(repo, table, seq, user, now, failAt)

\* Delete: both variants pass through.
UsecaseDelete(repo, table, seq, id, failAt) ==
  LET r == RepoDelete(repo, table, seq, id, failAt = 1) IN
  Out(r, <<Call("Delete", id, "", ZeroUser, 0, 0, r)>>)

\* List, internal/usecase/user_usecase.go
SimpleList(repo, table, seq, limit, offset, failAt) ==
  LET r == RepoList(repo, table, seq, limit, offset, failAt = 1) IN
  Out(r, <<Call("List", 0, "", ZeroUser, limit, offset, r)>>)

\* The default page size of List, readme.md
DefaultLimit == 10

\* List, readme.md
RichList(repo, table, seq, limit, offset, failAt) ==
  LET limit2 == IF limit <= 0 THEN DefaultLimit ELSE limit
      offset2 == IF offset < 0 THEN 0 ELSE offset
      r == RepoList(repo, table, seq, limit2, offset2, failAt = 1)
  IN Out(r, <<Call("List", 0, "", ZeroUser, limit2, offset2, r)>>)

UsecaseList(uc, repo, table, seq, limit, offset, failAt) ==
  IF uc = "rich" THEN RichList(repo, table, seq, limit, offset, failAt)
  ELSE SimpleList(repo, table, seq, limit, offset, failAt)

\* ------------------------------------------------------------- strconv
\* A string is the sequence of its bytes, each a one-character string.
Digits == {"0", "1", "2", "3", "4", "5", "6", "7", "8", "9"}

DigitVal(ch) ==
  CASE ch = "0" -> 0 [] ch = "1" -> 1 [] ch = "2" -> 2 [] ch = "3" -> 3 [] ch = "4" -> 4
    [] ch = "5" -> 5 [] ch = "6" -> 6 [] ch = "7" -> 7 [] ch = "8" -> 8 [] ch = "9" -> 9

\* n = n*10 + d over the bytes of s, all of them digits
RECURSIVE DecValue(_)
DecValue(s) ==
  IF s = <<>> THEN 0 ELSE DecValue(SubSeq(s, 1, Len(s) - 1)) * 10 + DigitVal(s[Len(s)])

RECURSIVE StripZeros(_)
StripZeros(s) == IF s # <<>> /\ s[1] = "0" THEN StripZeros(Tail(s)) ELSE s

\* a > b for two digit strings of the same length
RECURSIVE DigitsGreater(_, _)
DigitsGreater(a, b) ==
  IF a = <<>> THEN FALSE
  ELSE IF a[1] # b[1] THEN DigitVal(a[1]) > DigitVal(b[1])
  ELSE DigitsGreater(Tail(a), Tail(b))

\* 1<<32 - 1, the largest value of bitSize 32, as its digits
MaxUint32Digits == <<"4", "2", "9", "4", "9", "6", "7", "2", "9", "5">>

ExceedsUint32(s) ==
  LET t == StripZeros(s) IN
  Len(t) > Len(MaxUint32Digits)
    \/ (Len(t) = Len(MaxUint32Digits) /\ DigitsGreater(t, MaxUint32Digits))

\* ParseUint taking a leading sign, as ParseInt does.
ParseUintSigned(s) ==
  LET body == IF s # <<>> /\ s[1] \in {"-", "+"} THEN Tail(s) ELSE s IN
  IF body = <<>> \/ \E i \in 1..Len(body) : body[i] \notin Digits THEN [ok |-> FALSE, val |-> 0]
  ELSE IF ExceedsUint32(body) THEN [ok |-> FALSE, val |-> 0]
  ELSE [ok |-> TRUE, val |-> DecValue(body)]

\* strconv.ParseUint(s, 10, 32): ErrSyntax for an empty string or a byte that
\* is no digit (a sign is none), ErrRange above 1<<32 - 1.
ParseUint(s) ==
  IF s = <<>> \/ \E i \in 1..Len(s) : s[i] \notin Digits THEN [ok |-> FALSE, val |-> 0]
  ELSE IF ExceedsUint32(s) THEN [ok |-> FALSE, val |-> 0]
  ELSE [ok |-> TRUE, val |-> DecValue(s)]

\* strconv.Atoi(s) for a string of fewer than 19 bytes: an optional sign,
\* then digits only; (0, err) otherwise. val is the int, ok is err == nil.
Atoi(s) ==
  LET signed == s # <<>> /\ s[1] \in {"-", "+"}
      body == IF signed THEN Tail(s) ELSE s
  IN
  IF body = <<>> \/ \E i \in 1..Len(body) : body[i] \notin Digits THEN [ok |-> FALSE, val |-> 0]
  ELSE [ok |-> TRUE, val |-> IF s[1] = "-" THEN 0 - DecValue(body) ELSE DecValue(body)]

\* ------------------------------------------------- handler.UserHandler
StatusOK == 200
StatusCreated == 201
StatusNoContent == 204
StatusBadRequest == 400
StatusUnauthorized == 401
StatusNotFound == 404
StatusConflict == 409
StatusInternalServerError == 500

\* getStatusCode with a case for ErrBadRequest.
getStatusCodeWithBadRequest(err) ==
  IF err = NoErr THEN StatusOK
  ELSE CASE err = ErrInternalServerError -> StatusInternalServerError
         [] err = ErrNotFound -> StatusNotFound
         [] err = ErrConflict -> StatusConflict
         [] err = ErrBadRequest -> StatusBadRequest
         [] err = ErrInvalidCredentials -> StatusUnauthorized
         [] OTHER -> StatusInternalServerError

getStatusCode(err) ==
  IF err = NoErr THEN StatusOK
  ELSE CASE err = ErrInternalServerError -> StatusInternalServerError
         [] err = ErrNotFound -> StatusNotFound
         [] err = ErrConflict -> StatusConflict
         [] err = ErrInvalidCredentials -> StatusUnauthorized
         [] OTHER -> StatusInternalServerError

\* The use-case call a handler made: the method, its arguments and the error
\* it returned.
UcCall(m, id, user, limit, offset, out) ==
  [m |-> m, id |-> id, user |-> user, limit |-> limit, offset |-> offset,
   err |-> out.err, found |-> ~out.user.isNil]

\* What a handler leaves behind: the response (status, the users under
\* "data", the "message"), the calls it made, and the table after it.
\* data holds the serialized users: none, the one user, or the list.
Done(status, data, message, ucCalls, calls, table, seq) ==
  [status |-> status, data |-> data, message |-> message, panicked |-> FALSE,
   ucCalls |-> ucCalls, calls |-> calls, table |-> table, seq |-> seq]

\* A panic below the handler: middleware.Recover() answers 500.
Recovered(ucCalls, calls, table, seq) ==
  [Done(StatusInternalServerError, <<>>, "Internal Server Error", ucCalls, calls, table, seq)
     EXCEPT !.panicked = TRUE]

\* c.JSON(getStatusCode(err), {"message": err.Error()})
Failed(out, ucCalls) ==
  IF out.err = Panicked THEN Recovered(ucCalls, out.calls, out.table, out.seq)
  ELSE Done(getStatusCode(out.err), <<>>, out.err, ucCalls, out.calls, out.table, out.seq)

RECURSIVE JSONList(_)
JSONList(rows) == IF rows = <<>> THEN <<>> ELSE <<ToJSON(Head(rows))>> \o JSONList(Tail(rows))

GetUsers(uc, repo, table, seq, limitParam, offsetParam, failAt) ==
  LET limit == Atoi(limitParam).val
      offset == Atoi(offsetParam).val
      out == UsecaseList(uc, repo, table, seq, limit, offset, failAt)
      ucCalls == <<UcCall("List", 0, ZeroUser, limit, offset, out)>>
  IN
  IF out.err # NoErr THEN Failed(out, ucCalls)
  ELSE Done(StatusOK, JSONList(out.list), "", ucCalls, out.calls, out.table, out.seq)

GetUser(uc, repo, table, seq, idParam, failAt) ==
  LET id == ParseUint(idParam)
      out == UsecaseGetByID(repo, table, seq, id.val, failAt)
      ucCalls == <<UcCall("GetByID", id.val, ZeroUser, 0, 0, out)>>
  IN
  IF ~id.ok THEN Done(StatusBadRequest, <<>>, "invalid id parameter", <<>>, <<>>, table, seq)
  ELSE IF out.err # NoErr THEN Failed(out, ucCalls)
  ELSE Done(StatusOK, <<ToJSON(out.user.v)>>, "", ucCalls, out.calls, out.table, out.seq)

\* CreateUser with the presence check on Name and Email only.
CreateUserWithoutPasswordCheck(uc, repo, table, seq, bindOk, user, now, failAt) ==
  LET out == UsecaseCreate(uc, repo, table, seq, user, now, failAt)
      ucCalls == <<UcCall("Create", 0, user, 0, 0, out)>>
  IN
  IF ~bindOk THEN Done(StatusBadRequest, <<>>, "bind error", <<>>, <<>>, table, seq)
  ELSE IF user.Name = "" \/ user.Email = ""
  THEN Done(StatusBadRequest, <<>>, "name, email and password are required", <<>>, <<>>,
            table, seq)
  ELSE IF out.err # NoErr THEN Failed(out, ucCalls)
  ELSE Done(StatusCreated, <<ToJSON(out.arg)>>, "", ucCalls, out.calls, out.table, out.seq)

\* bindOk: c.Bind(&user) returned no error; user is the bound body.
CreateUser(uc, repo, table, seq, bindOk, user, now, failAt) ==
  LET out == UsecaseCreate(uc, repo, table, seq, user, now, failAt)
      ucCalls == <<UcCall("Create", 0, user, 0, 0, out)>>
  IN
  IF ~bindOk THEN Done(StatusBadRequest, <<>>, "bind error", <<>>, <<>>, table, seq)
  ELSE IF user.Name = "" \/ user.Email = "" \/ user.Password = ""
  THEN Done(StatusBadRequest, <<>>, "name, email and password are required", <<>>, <<>>,
            table, seq)
  ELSE IF out.err # NoErr THEN Failed(out, ucCalls)
  ELSE Done(StatusCreated, <<ToJSON(out.arg)>>, "", ucCalls, out.calls, out.table, out.seq)

UpdateUser(uc, repo, table, seq, idParam, bindOk, body, now, failAt) ==
  LET id == ParseUint(idParam)
      user == [body EXCEPT !.ID = id.val]
      out == UsecaseUpdate(uc, repo, table, seq, user, now, failAt)
      ucCalls == <<UcCall("Update", user.ID, user, 0, 0, out)>>
  IN
  IF ~id.ok THEN Done(StatusBadRequest, <<>>, "invalid id parameter", <<>>, <<>>, table, seq)
  ELSE IF ~bindOk THEN Done(StatusBadRequest, <<>>, "bind error", <<>>, <<>>, table, seq)
  ELSE IF out.err # NoErr THEN Failed(out, ucCalls)
  ELSE Done(StatusOK, <<ToJSON(out.arg)>>, "", ucCalls, out.calls, out.table, out.seq)

DeleteUser(uc, repo, table, seq, idParam, failAt) ==
  LET id == ParseUint(idParam)
      out == UsecaseDelete(repo, table, seq, id.val, failAt)
      ucCalls == <<UcCall("Delete", id.val, ZeroUser, 0, 0, out)>>
  IN
  IF ~id.ok THEN Done(StatusBadRequest, <<>>, "invalid id parameter", <<>>, <<>>, table, seq)
  ELSE IF out.err # NoErr THEN Failed(out, ucCalls)
  ELSE Done(StatusNoContent, <<>>, "", ucCalls, out.calls, out.table, out.seq)

\* --------------------------------------------------------------- requests
\* The values a request may carry.
Names == {"", "ann"}
Emails == {"", "a@x", "b@x"}
Passwords == {"", "pw"}

\* The users a request body may spell out (the time stamps are left out).
Payloads ==
  {User(id, n, e, p, ZeroTime, ZeroTime) : id \in 0..MaxID, n \in Names, e \in Emails,
                                           p \in Passwords}

\* The Content-Type of a body c.Bind decodes into the struct.
ContentTypes == {"application/json", "application/xml"}

\* c.Bind(&user): encoding/json follows the struct tags, and Password is
\* tagged json:"-", so a JSON body never sets it; encoding/xml goes by the
\* field names.
Bind(ctype, payload) ==
  IF ctype = "application/json" THEN [payload EXCEPT !.Password = ""] ELSE payload

\* The structs a successful c.Bind may leave in `user`.
Bodies == {Bind(ctype, payload) : ctype \in ContentTypes, payload \in Payloads}

DigitChar(n) == CHOOSE ch \in Digits : DigitVal(ch) = n

\* The :id path parameters: the ids 0..MaxID in decimal, one with a leading
\* zero, and strings ParseUint rejects (empty, letters, signs, 1<<32).
IdParams ==
  {<<DigitChar(i)>> : i \in 0..MaxID}
    \cup {<<"0", "1">>, <<>>, <<"a", "b", "c">>, <<"-", "1">>, <<"+", "1">>, <<"1", "x">>,
          <<"4", "2", "9", "4", "9", "6", "7", "2", "9", "6">>}

\* The limit and offset query parameters: missing, not an integer, and
\* integers below, at and above zero.
QueryParams == {<<>>, <<"x">>, <<"-", "1">>, <<"0">>, <<"1">>, <<"1", "2">>}

AllErrs == Sentinels \cup {NoErr, OtherErr}

\* ---------------------------------------------------- requests in flight
\* echo serves every request in a goroutine of its own; two at a time here.
Goroutines == {"g1", "g2"}

\* The methods of UserUsecase.
Ops == {"GetByID", "Create", "Update", "Delete", "List"}

\* A use-case call in a goroutine. pc: "check" before the first repository
\* call of the richer Create/Update (the lookup), "write" before the one
\* repository call that is left, "done" when the call has returned and the
\* response is decided. user is the call's argument (for GetByID and Delete
\* its ID only); calls counts the repository calls made; raced: another
\* goroutine changed the table after this call's lookup; wrote: a repository
\* call of this call changed the table; taken: the call was a Create, and at
\* its last repository call, which the database served, a stored user had
\* its email; err and status: what the call returned and the response.
Job(op, pc, user, calls, raced, wrote, taken, err, status) ==
  [op |-> op, pc |-> pc, user |-> user, calls |-> calls, raced |-> raced, wrote |-> wrote,
   taken |-> taken, err |-> err, status |-> status]

NoJob == Job("none", "idle", ZeroUser, 0, FALSE, FALSE, FALSE, NoErr, 0)

NoJobs == [g \in Goroutines |-> NoJob]

\* The bodies of the concurrent requests: they pass the handler's presence
\* check.
ConcBodies == {User(0, "ann", e, "pw", ZeroTime, ZeroTime) : e \in Emails \ {""}}

\* The status the handler answers a use-case call with.
Answered(op, err, table, seq) ==
  IF err # NoErr THEN Failed(Out(Ret(NilPtr, err, table, seq, ZeroUser), <<>>), <<>>).status
  ELSE CASE op = "Create" -> StatusCreated
         [] op = "Delete" -> StatusNoContent
         [] OTHER -> StatusOK

VARIABLES
  uc,      \* the use-case variant main built: "simple" or "rich"
  repo,    \* the repository implementation main built: "gorm" or "sqlite"
  users,   \* the users table
  seq,     \* the table's AUTOINCREMENT sequence: the largest id ever used
  posted,  \* history: id -> the name and email of the successful POST that
           \* returned it, until a PUT or DELETE names the id
  last,    \* the request being answered: its inputs, the table before it,
           \* the calls it made and its response
  reqs     \* the requests in flight when requests are served concurrently:
           \* goroutine -> the use-case call it is in and how far it got

vars == <<uc, repo, users, seq, posted, last, reqs>>

\* The request and what the handler `h` made of it. now is what time.Now()
\* read, err the argument of a direct getStatusCode call.
Request(route, idParam, limitParam, offsetParam, bindOk, body, failAt, now, err, h) ==
  [route |-> route, idParam |-> idParam, limitParam |-> limitParam,
   offsetParam |-> offsetParam, bindOk |-> bindOk, body |-> body, failAt |-> failAt,
   now |-> now, err |-> err, pre |-> users,
   status |-> h.status, data |-> h.data, message |-> h.message, panicked |-> h.panicked,
   ucCalls |-> h.ucCalls, calls |-> h.calls]

\* No request is being handled.
NoRequest ==
  [route |-> "none", idParam |-> <<>>, limitParam |-> <<>>, offsetParam |-> <<>>,
   bindOk |-> FALSE, body |-> ZeroUser, failAt |-> 0, now |-> ZeroTime, err |-> NoErr,
   pre |-> EmptyTable, status |-> 0, data |-> <<>>, message |-> "", panicked |-> FALSE,
   ucCalls |-> <<>>, calls |-> <<>>]

\* The tables the service may be started on: the file may hold rows already.
InitTables == {EmptyTable, Put(EmptyTable, 1, User(1, "ann", "a@x", "pw", 1, 1))}

RECURSIVE MaxOf(_)
MaxOf(S) == IF S = {} THEN 0 ELSE LET x == CHOOSE x \in S : TRUE IN Max(x, MaxOf(S \ {x}))

NoPosts == [i \in {} |-> [name |-> "", email |-> ""]]

Init ==
  /\ uc \in Usecases
  /\ repo \in Repos
  /\ users \in InitTables
  /\ seq = MaxOf(Ids(users))
  /\ posted = NoPosts
  /\ last = NoRequest
  /\ reqs = NoJobs

\* Requests are handled one at a time here: a handler runs when the
\* previous response has been written.
Idle == last.route = "none"

\* The handler's writes reach the table.
Commit(h) ==
  /\ users' = h.table
  /\ seq' = h.seq
  /\ UNCHANGED <<uc, repo, reqs>>

\* The table stays within the ids of the model.
InBounds(h) == \A i \in Ids(h.table) : i <= MaxID

\* The parameters of the requests the model sends: inputs that the handler
\* never reads (the body after a failed parse of :id, ...) are fixed.
ValidIdParams == {p \in IdParams : ParseUint(p).ok}
BodiesOf(bindOk) == IF bindOk THEN Bodies ELSE {ZeroUser}
FailuresOf(bindOk) == IF bindOk THEN 0..2 ELSE {0}

\* GET /api/v1/users
GetUsersReq ==
  /\ Idle
  /\ \E limitParam \in QueryParams, offsetParam \in QueryParams, failAt \in 0..1 :
       LET h == GetUsers(uc, repo, users, seq, limitParam, offsetParam, failAt) IN
       /\ Commit(h)
       /\ last' = Request("GetUsers", <<>>, limitParam, offsetParam, FALSE, ZeroUser, failAt,
                          ZeroTime, NoErr, h)
       /\ UNCHANGED posted

\* GET /api/v1/users/:id
GetUserReq ==
  /\ Idle
  /\ \E idParam \in IdParams :
       \E failAt \in IF idParam \in ValidIdParams THEN 0..1 ELSE {0} :
         LET h == GetUser(uc, repo, users, seq, idParam, failAt) IN
         /\ Commit(h)
         /\ last' = Request("GetUser", idParam, <<>>, <<>>, FALSE, ZeroUser, failAt, ZeroTime,
                            NoErr, h)
         /\ UNCHANGED posted

\* POST /api/v1/users
CreateUserReq ==
  /\ Idle
  /\ \E bindOk \in BOOLEAN, now \in 1..MaxTime :
       \E body \in BodiesOf(bindOk), failAt \in FailuresOf(bindOk) :
         LET h == CreateUser(uc, repo, users, seq, bindOk, body, now, failAt) IN
         /\ InBounds(h)
         /\ Commit(h)
         /\ last' = Request("CreateUser", <<>>, <<>>, <<>>, bindOk, body, failAt, now, NoErr, h)
         /\ posted' = IF h.status = StatusCreated
                      THEN Put(posted, h.data[1].id,
                               [name |-> body.Name, email |-> body.Email])
                      ELSE posted

\* PUT /api/v1/users/:id (the handler overwrites the body's id with :id)
UpdateUserReq ==
  /\ Idle
  /\ \E idParam \in IdParams, now \in 1..MaxTime :
       \E bindOk \in IF idParam \in ValidIdParams THEN BOOLEAN ELSE {TRUE} :
         \E body \in {b \in BodiesOf(bindOk /\ idParam \in ValidIdParams) : b.ID = 0},
            failAt \in FailuresOf(bindOk /\ idParam \in ValidIdParams) :
           LET h == UpdateUser(uc, repo, users, seq, idParam, bindOk, body, now, failAt) IN
           /\ InBounds(h)
           /\ Commit(h)
           /\ last' = Request("UpdateUser", idParam, <<>>, <<>>, bindOk, body, failAt, now,
                              NoErr, h)
           /\ posted' = IF idParam \in ValidIdParams
                        THEN Remove(posted, ParseUint(idParam).val)
                        ELSE posted

\* DELETE /api/v1/users/:id
DeleteUserReq ==
  /\ Idle
  /\ \E idParam \in IdParams :
       \E failAt \in IF idParam \in ValidIdParams THEN 0..1 ELSE {0} :
         LET h == DeleteUser(uc, repo, users, seq, idParam, failAt) IN
         /\ Commit(h)
         /\ last' = Request("DeleteUser", idParam, <<>>, <<>>, FALSE, ZeroUser, failAt,
                            ZeroTime, NoErr, h)
         /\ posted' = IF idParam \in ValidIdParams
                      THEN Remove(posted, ParseUint(idParam).val)
                      ELSE posted

\* getStatusCode(err) on any error value
StatusCodeOf ==
  /\ Idle
  /\ \E err \in AllErrs :
    /\ last' = Request("getStatusCode", <<>>, <<>>, <<>>, FALSE, ZeroUser, 0, ZeroTime, err,
                       Done(getStatusCode(err), <<>>, "", <<>>, <<>>, users, seq))
    /\ UNCHANGED <<uc, repo, users, seq, posted, reqs>>

\* The response is written and the request's context released.
Served ==
  /\ ~Idle
  /\ last' = NoRequest
  /\ UNCHANGED <<uc, repo, users, seq, posted, reqs>>

Next ==
  \/ GetUsersReq
  \/ GetUserReq
  \/ CreateUserReq
  \/ UpdateUserReq
  \/ DeleteUserReq
  \/ StatusCodeOf
  \/ Served

Spec == Init /\ [][Next]_vars

\* -------------------------------------------- requests served concurrently
\* The goroutines of the requests run the same use case over the same
\* table; each repository call is one database statement, and the calls of
\* different goroutines interleave. Nothing in the handler, the use case or
\* the repository locks, and no transaction spans two repository calls.

\* A goroutine's handler has parsed its request and calls the use case.
Accept(g) ==
  /\ reqs[g].pc = "idle"
  /\ \E op \in Ops, id \in 1..MaxID, body \in ConcBodies :
       LET user == CASE op \in {"GetByID", "Delete"} -> [ZeroUser EXCEPT !.ID = id]
                     [] op = "Create" -> body
                     [] op = "Update" -> [body EXCEPT !.ID = id]
                     [] OTHER -> ZeroUser
           pc == IF uc = "rich" /\ op \in {"Create", "Update"} THEN "check" ELSE "write"
       IN reqs' = [reqs EXCEPT ![g] = Job(op, pc, user, 0, FALSE, FALSE, FALSE, NoErr, 0)]
  /\ UNCHANGED <<uc, repo, users, seq, posted, last>>

\* The first repository call of the richer Create (GetByEmail) or Update
\* (GetByID), on the table as it is now; the call returns here, or goes on
\* with the stamped user to its second repository call.
Check(g) ==
  /\ reqs[g].pc = "check"
  /\ \E fail \in BOOLEAN, now \in 1..MaxTime :
       LET j == reqs[g]
           failAt == IF fail THEN 1 ELSE 0
           out == IF j.op = "Create" THEN RichCreate(repo, users, seq, j.user, now, failAt)
                  ELSE RichUpdate(repo, users, seq, j.user, now, failAt)
           taken == j.op = "Create" /\ ~fail /\ EmailTaken(users, j.user.Email, 0)
       IN reqs' = [reqs EXCEPT ![g] =
                     IF Len(out.calls) = 1
                     THEN Job(j.op, "done", ZeroUser, 1, FALSE, FALSE, taken, out.err,
                              Answered(j.op, out.err, users, seq))
                     ELSE Job(j.op, "write", out.calls[2].user, 1, FALSE, FALSE, FALSE,
                              NoErr, 0)]
  /\ UNCHANGED <<uc, repo, users, seq, posted, last>>

\* The last repository call of a use-case call, on the table as it is now.
Write(g) ==
  /\ reqs[g].pc = "write"
  /\ \E fail \in BOOLEAN, now \in 1..MaxTime :
       LET j == reqs[g]
           failAt == IF fail THEN 1 ELSE 0
           r == CASE j.op = "GetByID" -> UsecaseGetByID(repo, users, seq, j.user.ID, failAt)
                  [] j.op = "Create" -> RepoCreate(repo, users, seq, j.user, now, fail)
                  [] j.op = "Update" -> RepoUpdate(repo, users, seq, j.user, now, fail)
                  [] j.op = "Delete" -> UsecaseDelete(repo, users, seq, j.user.ID, failAt)
                  [] OTHER -> UsecaseList(uc, repo, users, seq, 0, 0, failAt)
           changed == r.table # users
           taken == j.op = "Create" /\ ~fail /\ EmailTaken(users, j.user.Email, 0)
       IN
       /\ \A i \in Ids(r.table) : i <= MaxID
       /\ users' = r.table
       /\ seq' = r.seq
       /\ reqs' = [h \in Goroutines |->
                     IF h = g
                     THEN Job(j.op, "done", ZeroUser, j.calls + 1, j.raced, changed, taken,
                              r.err, Answered(j.op, r.err, r.table, r.seq))
                     ELSE IF reqs[h].pc = "write" /\ reqs[h].calls = 1
                     THEN [reqs[h] EXCEPT !.raced = @ \/ changed]
                     ELSE reqs[h]]
  /\ UNCHANGED <<uc, repo, posted, last>>

\* The response is written and the goroutine ends.
Respond(g) ==
  /\ reqs[g].pc = "done"
  /\ reqs' = [reqs EXCEPT ![g] = NoJob]
  /\ UNCHANGED <<uc, repo, users, seq, posted, last>>

ConcNext == \E g \in Goroutines : Accept(g) \/ Check(g) \/ Write(g) \/ Respond(g)

ConcSpec == Init /\ [][ConcNext]_vars

\* ------------------------------------------------------------------ claims
\* The use-case call of the request being answered, when the handler made one.
UcCalled == last.ucCalls # <<>>
U == last.ucCalls[1]

\* The repository calls of the request with this method.
CallsOf(m) == {k \in 1..Len(last.calls) : last.calls[k].m = m}

\* C1: GetByID(id), Update(user with that id) and Delete(id) return NotFound
\* for every id that is not the id of a stored user (here: even when no
\* database call of the request fails).
C1_MissingIdIsNotFound ==
  (/\ UcCalled
   /\ U.m \in {"GetByID", "Update", "Delete"}
   /\ U.id \notin Ids(last.pre)
   /\ last.failAt = 0)
  => U.err = ErrNotFound

\* Create was called with the email of a stored user.
CreateOfTakenEmail ==
  /\ UcCalled
  /\ U.m = "Create"
  /\ \E i \in Ids(last.pre) : last.pre[i].Email = U.user.Email

\* C2, as stated: in the richer variant, Create(user) while a stored user
\* has the same email returns Conflict, does not call the repository's
\* Create and leaves the stored users unchanged.
C2_DuplicateEmailConflicts ==
  (uc = "rich" /\ CreateOfTakenEmail)
  => (U.err = ErrConflict /\ CallsOf("Create") = {} /\ users = last.pre)

\* C2, amended: ... returns Conflict unless the lookup's database call
\* fails under the GORM repository, and then returns InternalServerError; in
\* both cases the repository's Create is not called and the stored users
\* are unchanged.
C2_DuplicateEmailConflictsUnlessLookupFails ==
  (uc = "rich" /\ CreateOfTakenEmail)
  => /\ U.err = IF last.failAt = 1 /\ repo = "gorm" THEN ErrInternalServerError
                ELSE ErrConflict
     /\ CallsOf("Create") = {}
     /\ users = last.pre

C2_Witness ==
  /\ uc = "rich"
  /\ CreateOfTakenEmail
  /\ last.failAt = 0
  /\ U.err = ErrConflict
  /\ last.status = 409

\* C3: List(limit, offset) calls the repository's List once, with limit 10
\* when limit <= 0 and offset 0 when offset < 0, and with the values given
\* otherwise; so a missing or non-integer query parameter reaches the
\* repository as limit 10 or offset 0.
C3_ListDefaults ==
  (UcCalled /\ U.m = "List")
  => /\ Len(last.calls) = 1
     /\ last.calls[1].m = "List"
     /\ last.calls[1].limit = (IF U.limit <= 0 THEN 10 ELSE U.limit)
     /\ last.calls[1].offset = (IF U.offset < 0 THEN 0 ELSE U.offset)
     /\ (last.limitParam \in {<<>>, <<"x">>} => last.calls[1].limit = 10)
     /\ (last.offsetParam \in {<<>>, <<"x">>} => last.calls[1].offset = 0)

\* C4: a POST whose bound body has an empty Name, Email or Password is
\* answered 400 without any use-case or repository call, the stored users
\* unchanged.
C4_EmptyFieldIsBadRequest ==
  (/\ last.route = "CreateUser"
   /\ last.bindOk
   /\ (last.body.Name = "" \/ last.body.Email = "" \/ last.body.Password = ""))
  => /\ last.status = 400
     /\ last.ucCalls = <<>>
     /\ last.calls = <<>>
     /\ users = last.pre

C4_Witness ==
  /\ last.route = "CreateUser"
  /\ last.bindOk
  /\ last.body.Name # ""
  /\ last.body.Email # ""
  /\ last.body.Password = ""
  /\ last.status = 400
  /\ last.ucCalls = <<>>

\* The string is not an unsigned decimal integer: it is empty or holds a
\* byte that is no digit.
NotUnsigned(s) == s = <<>> \/ \E i \in 1..Len(s) : s[i] \notin Digits

\* C5: a GET, PUT or DELETE on /api/v1/users/:id whose :id is not an unsigned
\* integer is answered 400 and the use case is not called.
C5_BadIdIsBadRequest ==
  (last.route \in {"GetUser", "UpdateUser", "DeleteUser"} /\ NotUnsigned(last.idParam))
  => (last.status = 400 /\ last.ucCalls = <<>> /\ last.calls = <<>> /\ users = last.pre)

C5_Witness ==
  /\ last.route = "UpdateUser"
  /\ last.idParam = <<"-", "1">>
  /\ last.status = 400
  /\ last.ucCalls = <<>>

\* A GET by an id that a successful POST returned, with no PUT or DELETE of
\* that id since.
GetOfPosted ==
  /\ last.route = "GetUser"
  /\ UcCalled
  /\ U.id \in DOMAIN posted

\* The GET answered 200 with the name and email that were posted, and the
\* serialized user has no password field.
RoundTrip ==
  /\ last.status = 200
  /\ Len(last.data) = 1
  /\ last.data[1].name = posted[U.id].name
  /\ last.data[1].email = posted[U.id].email
  /\ DOMAIN last.data[1] \cap {"password", "Password"} = {}

\* C6, as stated: after a successful POST of name N and email E, a GET by
\* the returned id (no PUT or DELETE of it in between) succeeds with Name N
\* and Email E and no password field.
C6_RoundTrip == GetOfPosted => RoundTrip

\* C6, amended: ... succeeds with Name N, Email E and no password field
\* unless the GET's database call fails, and then is answered 500.
C6_RoundTripUnlessReadFails ==
  GetOfPosted => IF last.failAt = 0 THEN RoundTrip ELSE last.status = 500 /\ last.data = <<>>

C6_Witness ==
  /\ GetOfPosted
  /\ last.failAt = 0
  /\ RoundTrip
  /\ posted[U.id].name = "ann"

\* The status the mapping is said to give a non-nil error.
StatusSaid(err) ==
  CASE err = ErrNotFound -> 404
    [] err = ErrConflict -> 409
    [] err = ErrInvalidCredentials -> 401
    [] OTHER -> 500

\* C7: getStatusCode sends NotFound to 404, Conflict to 409,
\* InvalidCredentials to 401 and every other non-nil error to 500: in a direct
\* call on any error value, and in every response to a use-case error.
C7_StatusMapping ==
  /\ (last.route = "getStatusCode" /\ last.err # NoErr)
       => (last.status = StatusSaid(last.err) /\ last.status \in {404, 409, 401, 500})
  /\ (UcCalled /\ U.err \notin {NoErr, Panicked})
       => (last.status = StatusSaid(U.err) /\ last.status \in {404, 409, 401, 500})

C7_Witness ==
  /\ last.route = "getStatusCode"
  /\ last.err = ErrBadRequest
  /\ last.status = 500

\* C8: a repository read whose database call fails (not with "no rows")
\* returns InternalServerError and no user; no repository method returns a
\* nil error when its database call failed; and the errors the repository
\* returns are NotFound and InternalServerError only.
C8_ReadFailureIsInternalError ==
  \A k \in 1..Len(last.calls) :
    LET c == last.calls[k] IN
    /\ (last.failAt = k /\ c.m \in {"GetByID", "GetByEmail"})
         => (c.err = ErrInternalServerError /\ ~c.found)
    /\ last.failAt = k => c.err # NoErr
    /\ c.err \in {NoErr, Panicked, ErrNotFound, ErrInternalServerError}

\* The richer Create was called; its first repository call is the lookup.
RichCreateCalled ==
  /\ uc = "rich"
  /\ UcCalled
  /\ U.m = "Create"

\* C9: in the richer variant, when Create's email lookup returns an error
\* other than NotFound, Create returns that error and does not call the
\* repository's Create; when the lookup returns NotFound, Create stamps
\* CreatedAt and UpdatedAt with the same current time, calls the
\* repository's Create exactly once and returns its result.
C9_CreateAfterLookup ==
  RichCreateCalled
  => /\ last.calls # <<>>
     /\ last.calls[1].m = "GetByEmail"
     /\ last.calls[1].email = U.user.Email
     /\ last.calls[1].err \notin {NoErr, ErrNotFound}
          => (U.err = last.calls[1].err /\ CallsOf("Create") = {} /\ Len(last.calls) = 1)
     /\ last.calls[1].err = ErrNotFound
          => /\ CallsOf("Create") = {2}
             /\ Len(last.calls) = 2
             /\ last.calls[2].user.CreatedAt = last.now
             /\ last.calls[2].user.UpdatedAt = last.now
             /\ last.calls[2].user.Email = U.user.Email
             /\ U.err = last.calls[2].err

C9_Witness ==
  /\ RichCreateCalled
  /\ last.calls[1].err = ErrInternalServerError
  /\ U.err = ErrInternalServerError
  /\ Len(last.calls) = 1

\* C10: Update(user) first checks user.ID with GetByID; when the check
\* fails it returns GetByID's error without calling the repository's Update,
\* the stored users unchanged; when it succeeds it stamps UpdatedAt and
\* calls the repository's Update.
C10_UpdateChecksFirst ==
  (UcCalled /\ U.m = "Update")
  => /\ last.calls[1].m = "GetByID"
     /\ last.calls[1].id = U.id
     /\ last.calls[1].err # NoErr
          => (U.err = last.calls[1].err /\ CallsOf("Update") = {} /\ users = last.pre)
     /\ last.calls[1].err = NoErr
          => (CallsOf("Update") = {2} /\ last.calls[2].user.UpdatedAt = last.now)

\* A use-case call that has returned, in goroutine g.
Returned(g) == reqs[g].pc = "done"

\* C11: whenever a use-case operation (GetByID, Create, Update, Delete,
\* List) returns an error, none of its repository calls has changed the
\* stored users: it leaves the table as it would be had it never been
\* called, also when the repository calls of other requests interleave with
\* its own (for Update: between its existence check and its write).
C11_FailedOperationWroteNothing ==
  \A g \in Goroutines : (Returned(g) /\ reqs[g].err # NoErr) => ~reqs[g].wrote

\* An Update whose existence check passed, whose row another request changed
\* before its write, and whose write then failed.
C11_Witness ==
  \E g \in Goroutines :
    /\ Returned(g)
    /\ reqs[g].op = "Update"
    /\ reqs[g].calls = 2
    /\ reqs[g].raced
    /\ reqs[g].err = ErrInternalServerError
    /\ ~reqs[g].wrote

\* No two stored users have the same email.
EmailsUnique == \A i, k \in Ids(users) : i # k => users[i].Email # users[k].Email

\* C12: in every state that interleaved Create, Update and Delete requests
\* reach, no two stored users have the same email; and a Create (of the
\* richer variant, the one with the lookup) that finds its email taken, at
\* its lookup or at its insert after a concurrent Create of the same email,
\* is answered 409.
C12_UniqueEmailAndConflict ==
  /\ EmailsUnique
  /\ \A g \in Goroutines :
       (uc = "rich" /\ Returned(g) /\ reqs[g].op = "Create" /\ reqs[g].taken)
         => reqs[g].status = StatusConflict

====
